---- MODULE Spec2Model ----
(***************************************************************************)
(* The viva session engine of backend/app/api/api_v1/endpoints/viva.py,    *)
(* with the provider adapter of backend/app/services/ai_service.py, the    *)
(* background processing of uploads of endpoints/media.py and the          *)
(* submission handlers of endpoints/submissions.py.                        *)
(*                                                                         *)
(* Numbers: every score is kept in tenths (fixed point, scale 10), so the  *)
(* provider's 0.7 is 7, the handler's 7 points are 70 and max_score 10 is  *)
(* 100.  An optional value is <<>> (None) or <<v>>.                        *)
(***************************************************************************)
EXTENDS Integers, Sequences, FiniteSets, TLC

VARIABLES
    sessions,   \* the viva_sessions table with each session's responses
    call,       \* the response to the last request handled
    settings,   \* the deployment's Settings (core/config.py)
    inflight,   \* the submit_viva_response calls waiting for the provider
    media,      \* the media_files table
    assignment, \* the assignment the submissions are made for
    submissions,\* the submissions table
    creating    \* the create_submission calls between their count and their insert

\* The tables the viva handlers leave alone.
records == <<media, assignment, submissions, creating>>

vars == <<sessions, call, settings, inflight, media, assignment, submissions, creating>>

-----------------------------------------------------------------------------
(* Bounds of the model *)

MaxTurns == 5          \* response rows any other session may hold, and answers a
                       \* session may count
MaxIrregular == 2      \* irregular events in one session: a restart or a row from
                       \* a provider fallback counts 2, an answer without
                       \* response_text or an early end counts 1
MaxCleanTurns == 6     \* response rows of a session all of whose rows hold the
                       \* provider's question and, once answered, a text and the
                       \* provider's evaluation
MaxAggTurns == 3       \* rows of a list handed to the aggregation alone
MaxFiles == 2          \* media files uploaded

SessionIds == {1}

\* Settings (core/config.py): the defaults, and the values a deployment may set
\* for the maximum through the environment: below, at and above the handler's
\* literal 5.
MAX_VIVA_QUESTIONS == 10
MIN_VIVA_QUESTIONS == 3
ConfiguredMaxValues == {MIN_VIVA_QUESTIONS, 5, MAX_VIVA_QUESTIONS}

-----------------------------------------------------------------------------
(* Values *)

None == <<>>
Some(v) == <<v>>
Val(o) == o[1]

Fix(n) == n * 10

Students == {"alice", "bob"}
Teachers == {"carol", "dave"}
\* A user whose role is neither student nor teacher (users.py treats the
\* remaining role as the administrator).
Admins == {"erin"}
Users == Students \cup Teachers \cup Admins
Role(u) ==
    IF u \in Students THEN "student"
    ELSE IF u \in Teachers THEN "teacher"
    ELSE "admin"

\* The one submission of the model: alice's submitted answer to carol's assignment.
SubmissionStudent == "alice"
AssignmentTeacher == "carol"

SCHEDULED == "scheduled"
IN_PROGRESS == "in_progress"
COMPLETED == "completed"
VivaSessionStatus == {SCHEDULED, IN_PROGRESS, COMPLETED}

ResponseTexts == {None, Some("answer")}

-----------------------------------------------------------------------------
(* The provider and the adapter (services/ai_service.py) *)

AiQuestion == "What does your solution do when the input is empty?"
FallbackQuestion == "Can you explain the main concepts from your assignment in your own words?"
FallbackFeedback == "Response received and recorded. Manual review recommended."
OkFeedback == "Clear answer."

\* What openai.ChatCompletion.create and json.loads can hand to
\* generate_viva_question: a raised error, text that is no JSON, or a JSON object.
GenReplies ==
    { [kind |-> "error", question |-> None, rest |-> FALSE],
      [kind |-> "text",  question |-> None, rest |-> FALSE],
      [kind |-> "json",  question |-> Some(AiQuestion), rest |-> TRUE] }

\* The adapter without its except branch: a failed call yields no question.
generate_viva_question_NoFallback(r) ==
    IF r.kind = "json" /\ r.question # None /\ r.rest
    THEN Val(r.question)
    ELSE ""

\* generate_viva_question: the question of a well-formed reply, and the fixed
\* fallback question on any exception (transport, json.loads, a missing key).
generate_viva_question(r) ==
    IF r.kind = "json" /\ r.question # None /\ r.rest
    THEN Val(r.question)
    ELSE FallbackQuestion

\* A JSON object is a function from its keys to optional values (null is None).
Get(d, k) == IF k \in DOMAIN d THEN d[k] ELSE None

EmptyObject == [k \in {} |-> None]

FallbackEvaluation ==
    [accuracy_score |-> Some(7), completeness_score |-> Some(7),
     confidence_score |-> Some(7), overall_score |-> Some(7),
     feedback |-> Some(FallbackFeedback)]

OkEvaluation ==
    [accuracy_score |-> Some(6), completeness_score |-> Some(7),
     confidence_score |-> Some(9), overall_score |-> Some(8),
     feedback |-> Some(OkFeedback)]

NullOverallEvaluation ==
    [accuracy_score |-> Some(5), completeness_score |-> Some(5),
     confidence_score |-> Some(5), overall_score |-> None,
     feedback |-> Some(OkFeedback)]

\* A JSON object without the overall_score key.
MissingOverallEvaluation ==
    [confidence_score |-> Some(4), accuracy_score |-> Some(3)]

EvalReplies ==
    { [kind |-> "error", body |-> EmptyObject],
      [kind |-> "dict",  body |-> OkEvaluation],
      [kind |-> "dict",  body |-> NullOverallEvaluation] }

\* evaluate_viva_response: the parsed JSON as it came, unvalidated, and the
\* fixed fallback evaluation on any exception.
evaluate_viva_response(r) ==
    IF r.kind \in {"error", "text"}
    THEN [kind |-> "dict", body |-> FallbackEvaluation]
    ELSE r

-----------------------------------------------------------------------------
(* Rows *)

\* A VivaResponse row as start_viva_session and submit_viva_response create it.
NewResponse(question, index) ==
    [order_index |-> index, question_text |-> question, response_text |-> None,
     confidence_score |-> None, accuracy_score |-> None,
     completeness_score |-> None, ai_feedback |-> None,
     score |-> None, max_score |-> None]

\* A VivaSession row as create_viva_session creates it.
NewSession(student) ==
    [student_id |-> student, status |-> SCHEDULED,
     questions_asked |-> 0, questions_answered |-> 0,
     started_at |-> None, completed_at |-> None,
     total_score |-> None, max_possible_score |-> None,
     overall_confidence_score |-> None, communication_score |-> None,
     technical_accuracy_score |-> None,
     responses |-> <<>>]

\* The pending query without its response_text filter.
PendingRows_AnyRow(s) == DOMAIN s.responses

\* The rows the code takes for unanswered: response_text IS NULL.
PendingRows(s) ==
    {i \in 1..Len(s.responses) : s.responses[i].response_text = None}

\* ORDER BY order_index DESC ... first(): a pending row of the greatest
\* order_index; the database picks among rows of equal order_index.
CurrentRows(s) ==
    {i \in PendingRows(s) :
        \A j \in PendingRows(s) :
            s.responses[j].order_index <= s.responses[i].order_index}

\* The evaluation with 0 as the score of the except branch.
WithEvaluation_ZeroDefault(row, ev) ==
    IF ev.kind = "dict" /\ Get(ev.body, "overall_score") # None
    THEN [row EXCEPT !.confidence_score = Get(ev.body, "confidence_score"),
                     !.accuracy_score = Get(ev.body, "accuracy_score"),
                     !.completeness_score = Get(ev.body, "completeness_score"),
                     !.ai_feedback = Get(ev.body, "feedback"),
                     !.score = Some(Val(ev.body["overall_score"]) * 10),
                     !.max_score = Some(Fix(10))]
    ELSE [row EXCEPT !.score = Some(0), !.max_score = Some(Fix(10))]

\* Lines 320-331: the evaluation written onto the row.  A reply that is no JSON
\* object raises at the first .get; a null overall_score raises at "* 10",
\* after the other fields were written; both end in the default score 7.
WithEvaluation(row, ev) ==
    IF ev.kind # "dict"
    THEN [row EXCEPT !.score = Some(Fix(7)), !.max_score = Some(Fix(10))]
    ELSE LET marked ==
                 [row EXCEPT !.confidence_score = Get(ev.body, "confidence_score"),
                             !.accuracy_score = Get(ev.body, "accuracy_score"),
                             !.completeness_score = Get(ev.body, "completeness_score"),
                             !.ai_feedback = Get(ev.body, "feedback")]
         IN  IF "overall_score" \notin DOMAIN ev.body
             THEN [marked EXCEPT !.score = Some(0 * 10), !.max_score = Some(Fix(10))]
             ELSE IF ev.body["overall_score"] = None
             THEN [marked EXCEPT !.score = Some(Fix(7)), !.max_score = Some(Fix(10))]
             ELSE [marked EXCEPT !.score = Some(Val(ev.body["overall_score"]) * 10),
                                 !.max_score = Some(Fix(10))]

\* Lines 302-333: the response attached to row i, the counter, the evaluation.
RecordResponse(s, i, text, ev) ==
    [s EXCEPT !.responses[i] =
                  WithEvaluation([@ EXCEPT !.response_text = text], ev),
              !.questions_answered = @ + 1]

-----------------------------------------------------------------------------
(* The scoring aggregation of submit_viva_response, lines 387-397 *)

Truthy(o) == o # None /\ Val(o) # 0
OrZero(o) == IF Truthy(o) THEN Val(o) ELSE 0

RECURSIVE SumScore(_)
\* sum(r.score or 0 for r in session.responses if r.score)
SumScore(rows) ==
    IF rows = <<>> THEN 0
    ELSE (IF Truthy(Head(rows).score) THEN OrZero(Head(rows).score) ELSE 0)
         + SumScore(Tail(rows))

RECURSIVE SumMaxScore(_)
\* sum(r.max_score or 0 for r in session.responses if r.max_score)
SumMaxScore(rows) ==
    IF rows = <<>> THEN 0
    ELSE (IF Truthy(Head(rows).max_score) THEN OrZero(Head(rows).max_score) ELSE 0)
         + SumMaxScore(Tail(rows))

RECURSIVE SumConfidence(_)
\* sum(r.confidence_score or 0 for r in session.responses)
SumConfidence(rows) ==
    IF rows = <<>> THEN 0
    ELSE OrZero(Head(rows).confidence_score) + SumConfidence(Tail(rows))

RECURSIVE SumAccuracy(_)
\* sum(r.accuracy_score or 0 for r in session.responses)
SumAccuracy(rows) ==
    IF rows = <<>> THEN 0
    ELSE OrZero(Head(rows).accuracy_score) + SumAccuracy(Tail(rows))

\* A quotient a / b, kept exact as the pair.
Ratio(a, b) == [num |-> a, den |-> b]

\* The aggregation with each mean taken over the rows that hold the score.
AggregateScores_MeanOfRecorded(s) ==
    LET totals == [s EXCEPT !.total_score = Some(SumScore(s.responses)),
                            !.max_possible_score = Some(SumMaxScore(s.responses))]
        withConfidence ==
            {i \in DOMAIN s.responses : s.responses[i].confidence_score # None}
        withAccuracy ==
            {i \in DOMAIN s.responses : s.responses[i].accuracy_score # None}
    IN  IF s.responses # <<>>
        THEN [totals EXCEPT
                 !.overall_confidence_score =
                     Some(Ratio(SumConfidence(s.responses), Cardinality(withConfidence))),
                 !.communication_score =
                     Some(Ratio(SumConfidence(s.responses), Cardinality(withConfidence))),
                 !.technical_accuracy_score =
                     Some(Ratio(SumAccuracy(s.responses), Cardinality(withAccuracy)))]
        ELSE totals

\* The aggregation with the maximum taken as 10 points for each row.
AggregateScores_MaxByCount(s) ==
    [s EXCEPT !.total_score = Some(SumScore(s.responses)),
              !.max_possible_score = Some(Fix(10) * Len(s.responses))]

\* Lines 387-397: totals always; the per-dimension means only "if session.responses".
AggregateScores(s) ==
    LET totals == [s EXCEPT !.total_score = Some(SumScore(s.responses)),
                            !.max_possible_score = Some(SumMaxScore(s.responses))]
    IN  IF s.responses # <<>>
        THEN [totals EXCEPT
                 !.overall_confidence_score =
                     Some(Ratio(SumConfidence(s.responses), Len(s.responses))),
                 !.communication_score =
                     Some(Ratio(SumConfidence(s.responses), Len(s.responses))),
                 !.technical_accuracy_score =
                     Some(Ratio(SumAccuracy(s.responses), Len(s.responses)))]
        ELSE totals

-----------------------------------------------------------------------------
(* Requests and responses *)

QuestionLimit == 5

NoCall ==
    [op |-> "none", sid |-> 0, code |-> 0, detail |-> "",
     question |-> None, session_complete |-> None,
     total_score |-> None, max_possible_score |-> None]

\* An HTTPException(status_code, detail), or a plain 200 when detail is "".
Reply(op, sid, code, detail) ==
    [NoCall EXCEPT !.op = op, !.sid = sid, !.code = code, !.detail = detail]

RoleDetail == "Not enough permissions. Student role required."
NotFoundDetail == "Viva session not found"
StartForbiddenDetail == "Not authorized to start this viva session"
StartStateDetail == "Session is not in scheduled state"
StartFailedDetail == "Failed to generate first question"
RespondForbiddenDetail == "Not authorized to respond in this viva session"
RespondStateDetail == "Session is not in progress"
NoPendingDetail == "No pending question to respond to"
GetForbiddenDetail == "Not authorized to view this viva session"
UpdateForbiddenDetail == "Not authorized to update this viva session"
CreateForbiddenDetail == "Not authorized to create viva session for this submission"

\* The irregular events a session shows: rows written from a provider fallback
\* or default, rows answered without text, starts after the first, and an end
\* before the question limit.
FaultRows(s) ==
    {i \in 1..Len(s.responses) :
        \/ s.responses[i].question_text # AiQuestion
        \/ /\ s.responses[i].max_score # None
           /\ \/ s.responses[i].ai_feedback # Some(OkFeedback)
              \/ s.responses[i].score # Some(Fix(8))}
AbsentRows(s) ==
    {i \in 1..Len(s.responses) :
        s.responses[i].max_score # None /\ s.responses[i].response_text = None}
StartRows(s) ==
    {i \in 1..Len(s.responses) : s.responses[i].order_index = 1}
EndedEarly(s) == s.total_score # None /\ s.questions_asked < QuestionLimit
Irregular(s) ==
    2 * Cardinality(FaultRows(s)) + Cardinality(AbsentRows(s))
    + (IF StartRows(s) = {} THEN 0 ELSE 2 * (Cardinality(StartRows(s)) - 1))
    + (IF EndedEarly(s) THEN 1 ELSE 0)
WithinBounds(s) ==
    /\ Len(s.responses) <= (IF FaultRows(s) = {} /\ AbsentRows(s) = {}
                            THEN MaxCleanTurns ELSE MaxTurns)
    /\ s.questions_answered <= MaxTurns
    /\ Irregular(s) <= MaxIrregular

-----------------------------------------------------------------------------
(* Requests in flight *)

\* The handlers take no lock on a session and read no row for update.  The
\* provider calls block (openai.ChatCompletion.create is synchronous), so one
\* process runs its submit_viva_response calls one after the other, but calls
\* served by different worker processes overlap.  Each request works on its
\* own database session: what it has changed and not yet committed is
\* invisible to the others.  A call is cut where it waits for the provider
\* (lines 313 and 358), between its reads and its commits (lines 333, 369).
Requests == {1, 2}

Idle == [pc |-> "idle", sid |-> 0, row |-> 0, text |-> None,
         answered |-> 0, asked |-> 0]

-----------------------------------------------------------------------------
(* create_viva_session *)

NextId == Cardinality(DOMAIN sessions) + 1

Create(actor) ==
    /\ UNCHANGED <<settings, inflight, records>>
    /\ IF Role(actor) # "student"
       THEN /\ call' = Reply("create", 0, 403, RoleDetail)
            /\ UNCHANGED sessions
       ELSE IF SubmissionStudent # actor
       THEN /\ call' = Reply("create", 0, 403, CreateForbiddenDetail)
            /\ UNCHANGED sessions
       ELSE /\ NextId \in SessionIds
            /\ sessions' = [id \in DOMAIN sessions \cup {NextId} |->
                               IF id = NextId THEN NewSession(actor) ELSE sessions[id]]
            /\ call' = Reply("create", NextId, 200, "")

-----------------------------------------------------------------------------
(* get_viva_session *)

GetSession(sid, actor) ==
    /\ UNCHANGED <<sessions, settings, inflight, records>>
    /\ call' =
         IF sid \notin DOMAIN sessions
         THEN Reply("get", sid, 404, NotFoundDetail)
         ELSE IF Role(actor) = "student" /\ sessions[sid].student_id # actor
         THEN Reply("get", sid, 403, GetForbiddenDetail)
         ELSE IF Role(actor) = "teacher" /\ AssignmentTeacher # actor
         THEN Reply("get", sid, 403, GetForbiddenDetail)
         ELSE Reply("get", sid, 200, "")

-----------------------------------------------------------------------------
(* datetime.utcnow() *)

\* The clock only runs forward, so a reading written over a stored stamp is a
\* later time than the stamp.  A stamp is kept as the number of readings
\* written to its field: the first is 1, and writing again changes the value.
Later(stamp) == IF stamp = None THEN Some(1) ELSE Some(Val(stamp) + 1)

-----------------------------------------------------------------------------
(* update_viva_session *)

\* Lines 157-168: the status as sent, then the timestamp it brings if unset.
UpdatedSession(s, status) ==
    LET set == [s EXCEPT !.status = status]
    IN  IF status = IN_PROGRESS /\ set.started_at = None
        THEN [set EXCEPT !.started_at = Later(@)]
        ELSE IF status = COMPLETED /\ set.completed_at = None
        THEN [set EXCEPT !.completed_at = Later(@)]
        ELSE set

Update(sid, actor, status) ==
    /\ UNCHANGED <<settings, inflight, records>>
    /\ IF sid \notin DOMAIN sessions
       THEN /\ call' = Reply("update", sid, 404, NotFoundDetail)
            /\ UNCHANGED sessions
       ELSE IF Role(actor) = "student" /\ sessions[sid].student_id # actor
       THEN /\ call' = Reply("update", sid, 403, UpdateForbiddenDetail)
            /\ UNCHANGED sessions
       ELSE /\ sessions' = [sessions EXCEPT
                               ![sid] = UpdatedSession(sessions[sid], status)]
            /\ call' = Reply("update", sid, 200, "")

-----------------------------------------------------------------------------
(* start_viva_session *)

\* A state check that turns away completed sessions only.
StartAllowed_NotCompleted(s) == s.status # COMPLETED

\* Line 197: the only state Start accepts.
StartAllowed(s) == s.status = SCHEDULED

\* Lines 203-246: the state change of a successful Start.
StartedSession(s, question) ==
    [s EXCEPT !.status = IN_PROGRESS,
              !.started_at = Later(@),
              !.responses = Append(@, NewResponse(question, 1)),
              !.questions_asked = 1]

\* fault: an exception inside the try of lines 232-246 that is not the
\* provider's (the adapter absorbs those): the handler answers 500 and the
\* uncommitted changes are dropped with the database session.
\* Start with its writes not confined to the session of the request.
StartAccepted_EverySession(sid, gen, fault) ==
    IF fault
    THEN /\ call' = Reply("start", sid, 500, StartFailedDetail)
         /\ UNCHANGED sessions
    ELSE LET question == generate_viva_question(gen)
             new == StartedSession(sessions[sid], question)
         IN  /\ WithinBounds(new)
             /\ sessions' = [id \in DOMAIN sessions |->
                                IF sessions[id].status = SCHEDULED
                                THEN StartedSession(sessions[id], question)
                                ELSE sessions[id]]
             /\ call' = [Reply("start", sid, 200, "")
                            EXCEPT !.question = Some(question)]

StartAccepted(sid, gen, fault) ==
    IF fault
    THEN /\ call' = Reply("start", sid, 500, StartFailedDetail)
         /\ UNCHANGED sessions
    ELSE LET question == generate_viva_question(gen)
             new == StartedSession(sessions[sid], question)
         IN  /\ WithinBounds(new)
             /\ sessions' = [sessions EXCEPT ![sid] = new]
             /\ call' = [Reply("start", sid, 200, "")
                            EXCEPT !.question = Some(question)]

\* Start stamping started_at before its state check.
Start_StampsFirst(sid, actor, gens, faults) ==
    /\ UNCHANGED <<settings, inflight, records>>
    /\ IF Role(actor) # "student"
       THEN /\ call' = Reply("start", sid, 403, RoleDetail)
            /\ UNCHANGED sessions
       ELSE IF sid \notin DOMAIN sessions
       THEN /\ call' = Reply("start", sid, 404, NotFoundDetail)
            /\ UNCHANGED sessions
       ELSE IF sessions[sid].student_id # actor
       THEN /\ call' = Reply("start", sid, 403, StartForbiddenDetail)
            /\ UNCHANGED sessions
       ELSE IF ~StartAllowed(sessions[sid])
       THEN /\ call' = Reply("start", sid, 400, StartStateDetail)
            /\ sessions' = [sessions EXCEPT ![sid].started_at = Later(@)]
       ELSE \E gen \in gens, fault \in faults :
                StartAccepted(sid, gen, fault)

\* Start without the comparison of the session's student with the caller.
Start_AnyStudent(sid, actor, gens, faults) ==
    /\ UNCHANGED <<settings, inflight, records>>
    /\ IF Role(actor) # "student"
       THEN /\ call' = Reply("start", sid, 403, RoleDetail)
            /\ UNCHANGED sessions
       ELSE IF sid \notin DOMAIN sessions
       THEN /\ call' = Reply("start", sid, 404, NotFoundDetail)
            /\ UNCHANGED sessions
       ELSE IF ~StartAllowed(sessions[sid])
       THEN /\ call' = Reply("start", sid, 400, StartStateDetail)
            /\ UNCHANGED sessions
       ELSE \E gen \in gens, fault \in faults :
                StartAccepted(sid, gen, fault)

Start(sid, actor, gens, faults) ==
    /\ UNCHANGED <<settings, inflight, records>>
    /\ IF Role(actor) # "student"
       THEN /\ call' = Reply("start", sid, 403, RoleDetail)
            /\ UNCHANGED sessions
       ELSE IF sid \notin DOMAIN sessions
       THEN /\ call' = Reply("start", sid, 404, NotFoundDetail)
            /\ UNCHANGED sessions
       ELSE IF sessions[sid].student_id # actor
       THEN /\ call' = Reply("start", sid, 403, StartForbiddenDetail)
            /\ UNCHANGED sessions
       ELSE IF ~StartAllowed(sessions[sid])
       THEN /\ call' = Reply("start", sid, 400, StartStateDetail)
            /\ UNCHANGED sessions
       ELSE \E gen \in gens, fault \in faults :
                StartAccepted(sid, gen, fault)

-----------------------------------------------------------------------------
(* submit_viva_response *)

\* Line 284: the only state SubmitResponse accepts.
RespondAllowed(s) == s.status = IN_PROGRESS

\* The limit check stopping one question early.
AsksAnother_OneFewer(s) == s.questions_asked < QuestionLimit - 1

\* Line 336: whether another question is asked.
AsksAnother(s) == s.questions_asked < QuestionLimit

\* The next row created with the fallback text in place of the question returned.
ContinuedSession_OtherText(s, question) ==
    [s EXCEPT !.responses = Append(@, NewResponse(FallbackQuestion, s.questions_asked + 1)),
              !.questions_asked = @ + 1]

\* Lines 360-369: the next question appended.
ContinuedSession(s, question) ==
    [s EXCEPT !.responses = Append(@, NewResponse(question, s.questions_asked + 1)),
              !.questions_asked = @ + 1]

\* Lines 382-399: the session ended and scored.
CompletedSession(s) ==
    AggregateScores([s EXCEPT !.status = COMPLETED, !.completed_at = Later(@)])

\* fault: an exception inside the try of lines 338-369 (the context queries,
\* the request's validation): line 378 absorbs it and the session ends.
RespondAccepted(sid, i, text, ev, gen, fault) ==
    LET answered == RecordResponse(sessions[sid], i, text, evaluate_viva_response(ev))
        question == generate_viva_question(gen)
    IN  IF AsksAnother(answered) /\ ~fault
        THEN LET new == ContinuedSession(answered, question)
             IN  /\ WithinBounds(new)
                 /\ sessions' = [sessions EXCEPT ![sid] = new]
                 /\ call' = [Reply("respond", sid, 200, "")
                                EXCEPT !.question = Some(question),
                                       !.session_complete = Some(FALSE)]
        ELSE LET new == CompletedSession(answered)
             IN  /\ WithinBounds(new)
                 /\ sessions' = [sessions EXCEPT ![sid] = new]
                 /\ call' = [Reply("respond", sid, 200, "")
                                EXCEPT !.session_complete = Some(TRUE),
                                       !.total_score = new.total_score,
                                       !.max_possible_score = new.max_possible_score]

Respond(sid, actor, texts, evs, gens, faults) ==
    /\ UNCHANGED <<settings, inflight, records>>
    /\ IF Role(actor) # "student"
       THEN /\ call' = Reply("respond", sid, 403, RoleDetail)
            /\ UNCHANGED sessions
       ELSE IF sid \notin DOMAIN sessions
       THEN /\ call' = Reply("respond", sid, 404, NotFoundDetail)
            /\ UNCHANGED sessions
       ELSE IF sessions[sid].student_id # actor
       THEN /\ call' = Reply("respond", sid, 403, RespondForbiddenDetail)
            /\ UNCHANGED sessions
       ELSE IF ~RespondAllowed(sessions[sid])
       THEN /\ call' = Reply("respond", sid, 400, RespondStateDetail)
            /\ UNCHANGED sessions
       ELSE IF CurrentRows(sessions[sid]) = {}
       THEN /\ call' = Reply("respond", sid, 400, NoPendingDetail)
            /\ UNCHANGED sessions
       ELSE \E i \in CurrentRows(sessions[sid]), text \in texts,
               ev \in evs, gen \in gens, fault \in faults :
                RespondAccepted(sid, i, text, ev, gen, fault)

-----------------------------------------------------------------------------
(* submit_viva_response, from provider call to provider call *)

\* Lines 262-308, up to the provider call of line 313: the checks, the pending
\* row found, the response and the counter changed in the request's own objects.
RespondBegin(p, sid, actor, text) ==
    /\ inflight[p].pc = "idle"
    /\ UNCHANGED <<sessions, settings, records>>
    /\ IF Role(actor) # "student"
       THEN /\ call' = Reply("respond", sid, 403, RoleDetail)
            /\ UNCHANGED inflight
       ELSE IF sid \notin DOMAIN sessions
       THEN /\ call' = Reply("respond", sid, 404, NotFoundDetail)
            /\ UNCHANGED inflight
       ELSE IF sessions[sid].student_id # actor
       THEN /\ call' = Reply("respond", sid, 403, RespondForbiddenDetail)
            /\ UNCHANGED inflight
       ELSE IF ~RespondAllowed(sessions[sid])
       THEN /\ call' = Reply("respond", sid, 400, RespondStateDetail)
            /\ UNCHANGED inflight
       ELSE IF CurrentRows(sessions[sid]) = {}
       THEN /\ call' = Reply("respond", sid, 400, NoPendingDetail)
            /\ UNCHANGED inflight
       ELSE \E i \in CurrentRows(sessions[sid]) :
                /\ inflight' = [inflight EXCEPT ![p] =
                       [pc |-> "evaluating", sid |-> sid, row |-> i, text |-> text,
                        answered |-> sessions[sid].questions_answered + 1,
                        asked |-> 0]]
                /\ UNCHANGED call

\* Lines 313-358, from the first provider call to the second: the evaluation written
\* on the row the request holds, the commit of line 333 (the counter as the
\* request computed it), then the session read again and either the way to
\* the next question or the end of the session.
RespondRecord(p, ev, fault) ==
    /\ inflight[p].pc = "evaluating"
    /\ UNCHANGED <<settings, records>>
    /\ LET sid == inflight[p].sid
           i == inflight[p].row
           s == sessions[sid]
           answered ==
               [s EXCEPT !.responses[i] =
                             WithEvaluation([@ EXCEPT !.response_text = inflight[p].text],
                                            evaluate_viva_response(ev)),
                         !.questions_answered = inflight[p].answered]
       IN  IF AsksAnother(answered) /\ ~fault
           THEN /\ WithinBounds(answered)
                /\ sessions' = [sessions EXCEPT ![sid] = answered]
                /\ inflight' = [inflight EXCEPT ![p].pc = "generating",
                                                ![p].asked = answered.questions_asked]
                /\ UNCHANGED call
           ELSE LET new == CompletedSession(answered)
                IN  /\ WithinBounds(new)
                    /\ sessions' = [sessions EXCEPT ![sid] = new]
                    /\ inflight' = [inflight EXCEPT ![p] = Idle]
                    /\ call' = [Reply("respond", sid, 200, "")
                                   EXCEPT !.session_complete = Some(TRUE),
                                          !.total_score = new.total_score,
                                          !.max_possible_score = new.max_possible_score]

\* Lines 358-376, after the second provider call: the next row, numbered from
\* the counter the request read before the call, and the commit.
RespondFinish(p, gen) ==
    /\ inflight[p].pc = "generating"
    /\ UNCHANGED <<settings, records>>
    /\ LET sid == inflight[p].sid
           question == generate_viva_question(gen)
           new == [sessions[sid] EXCEPT
                      !.responses = Append(@, NewResponse(question, inflight[p].asked + 1)),
                      !.questions_asked = inflight[p].asked + 1]
       IN  /\ WithinBounds(new)
           /\ sessions' = [sessions EXCEPT ![sid] = new]
           /\ inflight' = [inflight EXCEPT ![p] = Idle]
           /\ call' = [Reply("respond", sid, 200, "")
                          EXCEPT !.question = Some(question),
                                 !.session_complete = Some(FALSE)]

ServerErrorDetail == "Internal Server Error"

\* A request that ends outside the handler's try blocks: the worker process is
\* stopped during a provider call, or the database refuses the commits that
\* follow (line 369, caught at line 378, and then line 399, not caught).  The
\* caller gets a 500 at best; what lines up to the last successful commit
\* wrote stays persisted, the rest is rolled back with the request's session.
RespondAbort(p) ==
    /\ inflight[p].pc \in {"evaluating", "generating"}
    /\ inflight' = [inflight EXCEPT ![p] = Idle]
    /\ call' = Reply("respond", inflight[p].sid, 500, ServerErrorDetail)
    /\ UNCHANGED <<sessions, settings, records>>

-----------------------------------------------------------------------------
(* Media files: upload_media and the background task process_media_file *)

VIDEO == "video"
AUDIO == "audio"
IMAGE == "image"
DOCUMENT == "document"
MediaType == {VIDEO, AUDIO, IMAGE, DOCUMENT}

ProcessingStatus == {"pending", "processing", "completed", "failed"}

\* What save_upload does with a request: the file saved, or refused for its
\* size or its extension.
UploadOutcomes == {"saved", "too_large", "format_not_allowed"}

\* What one processing step can meet.  Transcription is skipped when the
\* whisper module could not be imported; otherwise a step runs to its end or
\* raises inside its own try block.
TranscriptionOutcomes == {"unavailable", "ok", "raised"}
CompressionOutcomes == {"ok", "raised"}

\* The record save_upload builds.  task, transcription and compression are
\* not columns: they keep what became of the background task and of its steps.
NewMediaFile(type) ==
    [media_type |-> type, processing_status |-> "pending",
     transcript_file_path |-> None,
     task |-> IF type \in {VIDEO, AUDIO} THEN "scheduled" ELSE "none",
     transcription |-> "none", compression |-> "none"]

upload_media(type, outcome) ==
    /\ Len(media) < MaxFiles
    /\ IF outcome = "too_large"
       THEN /\ call' = Reply("upload", 0, 413, "File too large")
            /\ UNCHANGED media
       ELSE IF outcome = "format_not_allowed" /\ type \in {VIDEO, AUDIO}
       THEN /\ call' = Reply("upload", 0, 400, "Format not allowed")
            /\ UNCHANGED media
       ELSE /\ media' = Append(media, NewMediaFile(type))
            /\ call' = Reply("upload", Len(media) + 1, 200, "")
    /\ UNCHANGED <<sessions, settings, inflight, assignment, submissions, creating>>

\* MediaService.transcribe_audio: nothing is touched when whisper is missing;
\* success stores the transcript's path and "completed", an exception "failed".
transcribe_audio(file, outcome) ==
    IF outcome = "unavailable" \/ file.media_type \notin {AUDIO, VIDEO}
    THEN file
    ELSE IF outcome = "ok"
    THEN [file EXCEPT !.transcript_file_path = Some("transcript"),
                      !.processing_status = "completed",
                      !.transcription = "ok"]
    ELSE [file EXCEPT !.processing_status = "failed",
                      !.transcription = "raised"]

\* MediaService.compress_video: success stores "completed", an exception
\* "failed", whatever the status was.
compress_video(file, outcome) ==
    IF file.media_type # VIDEO
    THEN file
    ELSE IF outcome = "ok"
    THEN [file EXCEPT !.processing_status = "completed", !.compression = "ok"]
    ELSE [file EXCEPT !.processing_status = "failed", !.compression = "raised"]

\* process_media_file, lines 58-85.  fault: the commit of line 80 raises, so
\* the except branch stores "failed".
process_media_file(id, transcribed, compressed, fault) ==
    /\ id \in DOMAIN media
    /\ media[id].task = "scheduled"
    /\ LET processing == [media[id] EXCEPT !.processing_status = "processing"]
           heard == IF processing.media_type \in {VIDEO, AUDIO}
                    THEN transcribe_audio(processing, transcribed)
                    ELSE processing
           packed == IF heard.media_type = VIDEO
                     THEN compress_video(heard, compressed)
                     ELSE heard
           done == IF fault
                   THEN [packed EXCEPT !.processing_status = "failed"]
                   ELSE packed
       IN  media' = [media EXCEPT ![id] = [done EXCEPT !.task = "returned"]]
    /\ call' = Reply("process", id, 200, "")
    /\ UNCHANGED <<sessions, settings, inflight, assignment, submissions, creating>>

-----------------------------------------------------------------------------
(* Submissions: create_submission, update_submission, submit_submission *)

DRAFT == "draft"
SUBMITTED == "submitted"
GRADED == "graded"
SubmissionStatus == {DRAFT, SUBMITTED, GRADED}

\* The answers a request may carry: none, or one of two lists.
AnswerLists == {None, Some("first answers"), Some("second answers")}

\* AssignmentCreate.max_attempts defaults to 1; a teacher may allow more.
MaxAttemptsValues == {1, 2}

NewAssignment(attempts, active) ==
    [max_attempts |-> attempts, is_active |-> active, teacher_id |-> AssignmentTeacher]

CreateRequests == {1, 2}
NotCreating == [pc |-> "idle", student |-> "", existing |-> 0, answers |-> None]

\* The count query of lines 38-41.
existing_submissions(student) ==
    Cardinality({i \in DOMAIN submissions : submissions[i].student_id = student})

\* The row of lines 50-55 with the answers of lines 62-69.
NewSubmission(student, existing, answers) ==
    [student_id |-> student, attempt_number |-> existing + 1,
     status |-> DRAFT, submitted_at |-> None, answers |-> answers]

InactiveDetail == "Assignment is not active"
MaxAttemptsDetail == "Maximum attempts reached for this assignment"
SubmissionNotFoundDetail == "Submission not found"
UpdateSubmissionForbiddenDetail == "Not authorized to update this submission"
UpdateDraftOnlyDetail == "Can only update draft submissions"
SubmitForbiddenDetail == "Not authorized to submit this submission"
SubmitDraftOnlyDetail == "Can only submit draft submissions"

\* create_submission up to its count query: the checks of lines 19-47, and the
\* count the insert will use.
create_submission_count(r, actor, answers) ==
    /\ creating[r].pc = "idle"
    /\ IF Role(actor) # "student"
       THEN /\ call' = Reply("create_submission", 0, 403, RoleDetail)
            /\ UNCHANGED creating
       ELSE IF ~assignment.is_active
       THEN /\ call' = Reply("create_submission", 0, 400, InactiveDetail)
            /\ UNCHANGED creating
       ELSE IF existing_submissions(actor) >= assignment.max_attempts
       THEN /\ call' = Reply("create_submission", 0, 400, MaxAttemptsDetail)
            /\ UNCHANGED creating
       ELSE /\ creating' = [creating EXCEPT ![r] =
                               [pc |-> "counted", student |-> actor,
                                existing |-> existing_submissions(actor),
                                answers |-> answers]]
            /\ UNCHANGED call
    /\ UNCHANGED <<sessions, settings, inflight, media, assignment, submissions>>

\* create_submission from line 50: the insert with the count read before, and
\* the commits.
create_submission_insert(r) ==
    /\ creating[r].pc = "counted"
    /\ submissions' = Append(submissions,
                             NewSubmission(creating[r].student, creating[r].existing,
                                           creating[r].answers))
    /\ creating' = [creating EXCEPT ![r] = NotCreating]
    /\ call' = Reply("create_submission", Len(submissions) + 1, 200, "")
    /\ UNCHANGED <<sessions, settings, inflight, media, assignment>>

\* create_submission as one request served alone.
create_submission(actor, answers) ==
    /\ IF Role(actor) # "student"
       THEN /\ call' = Reply("create_submission", 0, 403, RoleDetail)
            /\ UNCHANGED submissions
       ELSE IF ~assignment.is_active
       THEN /\ call' = Reply("create_submission", 0, 400, InactiveDetail)
            /\ UNCHANGED submissions
       ELSE IF existing_submissions(actor) >= assignment.max_attempts
       THEN /\ call' = Reply("create_submission", 0, 400, MaxAttemptsDetail)
            /\ UNCHANGED submissions
       ELSE /\ submissions' = Append(submissions,
                                     NewSubmission(actor, existing_submissions(actor),
                                                   answers))
            /\ call' = Reply("create_submission", Len(submissions) + 1, 200, "")
    /\ UNCHANGED <<sessions, settings, inflight, media, assignment, creating>>

\* Lines 199-223: the status and the answers a request carries, written.
UpdatedSubmission(sub, status, answers) ==
    LET marked == IF status = None THEN sub
                  ELSE IF Val(status) = SUBMITTED
                  THEN [sub EXCEPT !.status = SUBMITTED,
                                   !.submitted_at = Later(@)]
                  ELSE [sub EXCEPT !.status = Val(status)]
    IN  IF answers = None THEN marked ELSE [marked EXCEPT !.answers = answers]

update_submission(id, actor, status, answers) ==
    /\ IF id \notin DOMAIN submissions
       THEN /\ call' = Reply("update_submission", id, 404, SubmissionNotFoundDetail)
            /\ UNCHANGED submissions
       ELSE IF Role(actor) = "student" /\ submissions[id].student_id # actor
       THEN /\ call' = Reply("update_submission", id, 403, UpdateSubmissionForbiddenDetail)
            /\ UNCHANGED submissions
       ELSE IF Role(actor) = "student" /\ submissions[id].status # DRAFT
       THEN /\ call' = Reply("update_submission", id, 400, UpdateDraftOnlyDetail)
            /\ UNCHANGED submissions
       ELSE IF Role(actor) = "teacher" /\ assignment.teacher_id # actor
       THEN /\ call' = Reply("update_submission", id, 403, UpdateSubmissionForbiddenDetail)
            /\ UNCHANGED submissions
       ELSE /\ submissions' = [submissions EXCEPT ![id] =
                                  UpdatedSubmission(@, status, answers)]
            /\ call' = Reply("update_submission", id, 200, "")
    /\ UNCHANGED <<sessions, settings, inflight, media, assignment, creating>>

submit_submission(id, actor) ==
    /\ IF Role(actor) # "student"
       THEN /\ call' = Reply("submit_submission", id, 403, RoleDetail)
            /\ UNCHANGED submissions
       ELSE IF id \notin DOMAIN submissions
       THEN /\ call' = Reply("submit_submission", id, 404, SubmissionNotFoundDetail)
            /\ UNCHANGED submissions
       ELSE IF submissions[id].student_id # actor
       THEN /\ call' = Reply("submit_submission", id, 403, SubmitForbiddenDetail)
            /\ UNCHANGED submissions
       ELSE IF submissions[id].status # DRAFT
       THEN /\ call' = Reply("submit_submission", id, 400, SubmitDraftOnlyDetail)
            /\ UNCHANGED submissions
       ELSE /\ submissions' = [submissions EXCEPT ![id] =
                                  [@ EXCEPT !.status = SUBMITTED,
                                            !.submitted_at = Later(@)]]
            /\ call' = Reply("submit_submission", id, 200, "")
    /\ UNCHANGED <<sessions, settings, inflight, media, assignment, creating>>

\* No media file, no submission, the assignment with its defaults.
InitRecords ==
    /\ media = <<>>
    /\ assignment = NewAssignment(1, TRUE)
    /\ submissions = <<>>
    /\ creating = [r \in CreateRequests |-> NotCreating]

-----------------------------------------------------------------------------
(* The specification *)

\* The state after deployment: no session yet, the Settings as configured.
InitWith(configured) ==
    /\ sessions = [id \in {} |-> NewSession(SubmissionStudent)]
    /\ call = NoCall
    /\ inflight = [p \in Requests |-> Idle]
    /\ InitRecords
    /\ settings \in [MAX_VIVA_QUESTIONS : configured,
                     MIN_VIVA_QUESTIONS : {MIN_VIVA_QUESTIONS}]

Init == InitWith({MAX_VIVA_QUESTIONS})

\* The respondent's requests, with every provider reply and every payload.
Next ==
    \/ Create(SubmissionStudent)
    \/ \E sid \in SessionIds : GetSession(sid, SubmissionStudent)
    \/ \E sid \in SessionIds, status \in VivaSessionStatus :
           Update(sid, SubmissionStudent, status)
    \/ \E sid \in SessionIds :
           Start(sid, SubmissionStudent, GenReplies, BOOLEAN)
    \/ \E sid \in SessionIds :
           Respond(sid, SubmissionStudent, ResponseTexts, EvalReplies,
                   GenReplies, BOOLEAN)

Spec == Init /\ [][Next]_vars

-----------------------------------------------------------------------------
(* A session driven by Start and SubmitResponse alone, under each configured
   maximum, with the database working *)

InitDriven == InitWith(ConfiguredMaxValues)

NextDriven ==
    \/ Create(SubmissionStudent)
    \/ \E sid \in SessionIds :
           Start(sid, SubmissionStudent, GenReplies, {FALSE})
    \/ \E sid \in SessionIds :
           Respond(sid, SubmissionStudent, ResponseTexts, EvalReplies,
                   GenReplies, {FALSE})

SpecDriven == InitDriven /\ [][NextDriven]_vars

-----------------------------------------------------------------------------
(* The aggregation of lines 387-397 as a function of the rows: applied to
   every list of up to MaxAggTurns rows *)

\* Rows as the handlers leave them: unanswered, or answered and evaluated.
AggRows ==
    {NewResponse(AiQuestion, 1)}
    \cup {WithEvaluation([NewResponse(AiQuestion, 1) EXCEPT !.response_text = text],
                         evaluate_viva_response(ev)) :
              text \in ResponseTexts,
              ev \in EvalReplies \cup {[kind |-> "dict", body |-> MissingOverallEvaluation]}}

AggLists ==
    UNION {{[i \in 1..n |-> [f[i] EXCEPT !.order_index = i]] : f \in [1..n -> AggRows]} :
              n \in 0..MaxAggTurns}

InitAgg ==
    /\ sessions \in {[id \in SessionIds |->
                        [NewSession(SubmissionStudent) EXCEPT
                            !.status = IN_PROGRESS, !.responses = rows]] :
                     rows \in AggLists}
    /\ call = NoCall
    /\ inflight = [p \in Requests |-> Idle]
    /\ InitRecords
    /\ settings \in [MAX_VIVA_QUESTIONS : {MAX_VIVA_QUESTIONS},
                     MIN_VIVA_QUESTIONS : {MIN_VIVA_QUESTIONS}]

Aggregate(sid) ==
    LET new == AggregateScores(sessions[sid])
    IN  /\ sessions' = [sessions EXCEPT ![sid] = new]
        /\ call' = [Reply("aggregate", sid, 200, "")
                       EXCEPT !.total_score = new.total_score,
                              !.max_possible_score = new.max_possible_score]
        /\ UNCHANGED <<settings, inflight, records>>

NextAgg == \E sid \in SessionIds : Aggregate(sid)

SpecAgg == InitAgg /\ [][NextAgg]_vars

-----------------------------------------------------------------------------
(* Every authenticated user calling create, get, update, start and respond, with the
   provider and the database working *)

ProviderQuestion == [kind |-> "json", question |-> Some(AiQuestion), rest |-> TRUE]
ProviderEvaluation == [kind |-> "dict", body |-> OkEvaluation]

NextAuth ==
    \/ \E actor \in Users : Create(actor)
    \/ \E sid \in SessionIds, actor \in Users : GetSession(sid, actor)
    \/ \E sid \in SessionIds, actor \in Users, status \in VivaSessionStatus :
           Update(sid, actor, status)
    \/ \E sid \in SessionIds, actor \in Users :
           Start(sid, actor, {ProviderQuestion}, {FALSE})
    \/ \E sid \in SessionIds, actor \in Users :
           Respond(sid, actor, {Some("answer")}, {ProviderEvaluation},
                   {ProviderQuestion}, {FALSE})

SpecAuth == Init /\ [][NextAuth]_vars

-----------------------------------------------------------------------------
(* The respondent's SubmitResponse calls overlapping at their provider calls *)

NextConc ==
    \/ Create(SubmissionStudent)
    \/ \E sid \in SessionIds :
           Start(sid, SubmissionStudent, {ProviderQuestion}, {FALSE})
    \/ \E p \in Requests, sid \in SessionIds :
           RespondBegin(p, sid, SubmissionStudent, Some("answer"))
    \/ \E p \in Requests, ev \in EvalReplies : RespondRecord(p, ev, FALSE)
    \/ \E p \in Requests : RespondFinish(p, ProviderQuestion)

SpecConc == Init /\ [][NextConc]_vars

-----------------------------------------------------------------------------
(* One SubmitResponse at a time, each of which may end part-way through *)

NextCrash ==
    \/ Create(SubmissionStudent)
    \/ \E sid \in SessionIds :
           Start(sid, SubmissionStudent, {ProviderQuestion}, {FALSE})
    \/ \E sid \in SessionIds :
           RespondBegin(1, sid, SubmissionStudent, Some("answer"))
    \/ \E ev \in EvalReplies : RespondRecord(1, ev, FALSE)
    \/ RespondFinish(1, ProviderQuestion)
    \/ RespondAbort(1)

SpecCrash == Init /\ [][NextCrash]_vars

-----------------------------------------------------------------------------
(* The provider's payloads, well formed and not, as they reach the Turns *)

\* A JSON object whose scores lie outside [0,1].
OutOfRangeEvaluation ==
    [accuracy_score |-> Some(12), completeness_score |-> Some(0 - 3),
     confidence_score |-> Some(20), overall_score |-> Some(15),
     feedback |-> Some(OkFeedback)]

\* What json.loads may return to evaluate_viva_response besides EvalReplies:
\* an object with scores out of range, an object without overall_score, and
\* JSON that is no object (an array).
PayloadEvaluations ==
    EvalReplies \cup
    { [kind |-> "dict", body |-> OutOfRangeEvaluation],
      [kind |-> "dict", body |-> MissingOverallEvaluation],
      [kind |-> "list", body |-> EmptyObject] }

\* What generate_viva_question may get besides GenReplies: an object whose
\* question is the empty string, and an object without the other keys.
PayloadQuestions ==
    GenReplies \cup
    { [kind |-> "json", question |-> Some(""), rest |-> TRUE],
      [kind |-> "json", question |-> Some(AiQuestion), rest |-> FALSE] }

NextPayload ==
    \/ Create(SubmissionStudent)
    \/ \E sid \in SessionIds :
           Start(sid, SubmissionStudent, PayloadQuestions, {FALSE})
    \/ \E sid \in SessionIds :
           Respond(sid, SubmissionStudent, {Some("answer")}, PayloadEvaluations,
                   PayloadQuestions, {FALSE})

SpecPayload == Init /\ [][NextPayload]_vars

-----------------------------------------------------------------------------
(* Two sessions of the respondent on the same submission, side by side *)

\* create_viva_session called twice: it sets no limit on the sessions of one
\* submission.
PairIds == {1, 2}

InitPair ==
    /\ sessions = [id \in PairIds |-> NewSession(SubmissionStudent)]
    /\ call = Reply("create", 2, 200, "")
    /\ inflight = [p \in Requests |-> Idle]
    /\ InitRecords
    /\ settings \in [MAX_VIVA_QUESTIONS : {MAX_VIVA_QUESTIONS},
                     MIN_VIVA_QUESTIONS : {MIN_VIVA_QUESTIONS}]

NextPair ==
    \/ \E sid \in PairIds :
           Update(sid, SubmissionStudent, COMPLETED)
    \/ \E sid \in PairIds :
           Start(sid, SubmissionStudent, {ProviderQuestion}, {FALSE})
    \/ \E sid \in PairIds :
           Respond(sid, SubmissionStudent, {Some("answer")}, {ProviderEvaluation},
                   {ProviderQuestion}, {FALSE})

SpecPair == InitPair /\ [][NextPair]_vars

-----------------------------------------------------------------------------
(* Uploads and their background processing *)

InitMedia ==
    /\ sessions = [id \in {} |-> NewSession(SubmissionStudent)]
    /\ call = NoCall
    /\ inflight = [p \in Requests |-> Idle]
    /\ InitRecords
    /\ settings \in [MAX_VIVA_QUESTIONS : {MAX_VIVA_QUESTIONS},
                     MIN_VIVA_QUESTIONS : {MIN_VIVA_QUESTIONS}]

NextMedia ==
    \/ \E type \in MediaType, outcome \in UploadOutcomes : upload_media(type, outcome)
    \/ \E id \in 1..MaxFiles, transcribed \in TranscriptionOutcomes,
          compressed \in CompressionOutcomes, fault \in BOOLEAN :
           process_media_file(id, transcribed, compressed, fault)

SpecMedia == InitMedia /\ [][NextMedia]_vars

-----------------------------------------------------------------------------
(* Submissions: the students' requests, one at a time, and create_submission
   calls that overlap *)

InitSubmissions ==
    /\ sessions = [id \in {} |-> NewSession(SubmissionStudent)]
    /\ call = NoCall
    /\ inflight = [p \in Requests |-> Idle]
    /\ media = <<>>
    /\ assignment \in {NewAssignment(n, active) :
                           n \in MaxAttemptsValues, active \in BOOLEAN}
    /\ submissions = <<>>
    /\ creating = [r \in CreateRequests |-> NotCreating]
    /\ settings \in [MAX_VIVA_QUESTIONS : {MAX_VIVA_QUESTIONS},
                     MIN_VIVA_QUESTIONS : {MIN_VIVA_QUESTIONS}]

\* The ids a request may name: the submissions of up to two attempts, and one
\* id no submission has.
SubmissionIds == 1..3

\* One student creates; that student and another call update and submit.
NextSubmit ==
    \/ \E answers \in AnswerLists \ {None} :
           create_submission(SubmissionStudent, answers)
    \/ \E id \in SubmissionIds, actor \in Students,
          status \in {None} \cup {Some(st) : st \in SubmissionStatus},
          answers \in AnswerLists :
           update_submission(id, actor, status, answers)
    \/ \E id \in SubmissionIds, actor \in Students : submit_submission(id, actor)

SpecSubmit == InitSubmissions /\ [][NextSubmit]_vars

NextAttempts ==
    \/ \E r \in CreateRequests, actor \in Students :
           create_submission_count(r, actor, Some("first answers"))
    \/ \E r \in CreateRequests : create_submission_insert(r)

SpecAttempts == InitSubmissions /\ [][NextAttempts]_vars

-----------------------------------------------------------------------------
(* Terms of the claims *)

Ids == DOMAIN sessions

Min(a, b) == IF a <= b THEN a ELSE b

\* A pending Turn is a Turn that has no response: one whose response text is
\* absent.
PendingTurns(s) ==
    {i \in DOMAIN s.responses : s.responses[i].response_text = None}

StartedOk(sid) == call.op = "start" /\ call.sid = sid /\ call.code = 200
RespondedOk(sid) == call.op = "respond" /\ call.sid = sid /\ call.code = 200
Aggregated(sid) == call.op = "aggregate" /\ call.sid = sid

\* The Turns whose question the provider supplied, and whether it supplied all.
ProviderTurns(s) ==
    {i \in DOMAIN s.responses : s.responses[i].question_text = AiQuestion}
Healthy(s) == ProviderTurns(s) = DOMAIN s.responses

\* The score and the maximum recorded on a Turn, 0 where none is recorded.
TurnScore(row) == IF row.score = None THEN 0 ELSE Val(row.score)
TurnMax(row) == IF row.max_score = None THEN 0 ELSE Val(row.max_score)

RECURSIVE TotalOf(_, _)
TotalOf(rows, n) ==
    IF n = 0 THEN 0 ELSE TotalOf(rows, n - 1) + TurnScore(rows[n])

RECURSIVE MaxPossibleOf(_, _)
MaxPossibleOf(rows, n) ==
    IF n = 0 THEN 0 ELSE MaxPossibleOf(rows, n - 1) + TurnMax(rows[n])

-----------------------------------------------------------------------------
(* Claims *)

\* C1: for every session, questions_answered <= questions_asked in every
\* reachable state, after any sequence of create, start, respond, update and
\* get calls.
C1_AnsweredAtMostAsked ==
    \A sid \in Ids : sessions[sid].questions_answered <= sessions[sid].questions_asked

\* C2: the lifecycle is monotonic along scheduled -> in_progress -> completed:
\* no step takes a completed session to another state, or an in_progress
\* session back to scheduled.
C2_LifecycleMonotonic ==
    [][\A sid \in Ids :
          /\ sessions[sid].status = COMPLETED => sessions'[sid].status = COMPLETED
          /\ sessions[sid].status = IN_PROGRESS => sessions'[sid].status # SCHEDULED]_vars

\* C3: at most one Turn of a session is pending (has no response) in every
\* reachable state, and right after a successful Start exactly one is.
C3_AtMostOnePending ==
    \A sid \in Ids :
        /\ Cardinality(PendingTurns(sessions[sid])) <= 1
        /\ StartedOk(sid) => Cardinality(PendingTurns(sessions[sid])) = 1

\* C4: a Start on a session that is not scheduled is rejected with
\* InvalidState (400, "Session is not in scheduled state") and changes
\* nothing of the session: no Turn issued, asked, started and state as before.
C4_SecondStartRejected ==
    [][\A sid \in Ids :
          (call'.op = "start" /\ call'.sid = sid /\ sessions[sid].status # SCHEDULED)
          => /\ call'.code = 400
             /\ call'.detail = StartStateDetail
             /\ sessions'[sid] = sessions[sid]]_vars

\* C4 witness: a started session whose second Start was just rejected.
C4_Witness ==
    \E sid \in Ids :
        /\ call.op = "start" /\ call.sid = sid
        /\ call.code = 400 /\ call.detail = StartStateDetail
        /\ sessions[sid].status = IN_PROGRESS
        /\ sessions[sid].started_at # None
        /\ sessions[sid].questions_asked = 1
        /\ Len(sessions[sid].responses) = 1

\* C5: SubmitResponse on an in_progress session without a pending Turn fails
\* with NoPendingTurn (400, "No pending question to respond to"), which is not
\* the InvalidState error, and changes nothing of the session.
C5_NoPendingRejected ==
    [][\A sid \in Ids :
          (/\ call'.op = "respond" /\ call'.sid = sid
           /\ sessions[sid].status = IN_PROGRESS
           /\ PendingTurns(sessions[sid]) = {})
          => /\ call'.code = 400
             /\ call'.detail = NoPendingDetail
             /\ call'.detail # RespondStateDetail
             /\ sessions'[sid] = sessions[sid]]_vars

\* C5 witness: an in_progress session all of whose Turns have a response, and
\* a SubmitResponse on it just rejected for want of a pending Turn.
C5_Witness ==
    \E sid \in Ids :
        /\ call.op = "respond" /\ call.sid = sid
        /\ call.code = 400 /\ call.detail = NoPendingDetail
        /\ sessions[sid].status = IN_PROGRESS
        /\ sessions[sid].responses # <<>>
        /\ PendingTurns(sessions[sid]) = {}

\* C6: a session driven by Start and SubmitResponse is completed after exactly
\* min(configured maximum, turns the adapter supplied) questions were asked,
\* and with a healthy adapter never after fewer than the configured minimum.
C6_CompletesAtConfiguredMax ==
    \A sid \in Ids :
        LET s == sessions[sid]
        IN  s.status = COMPLETED =>
                /\ s.questions_asked =
                       IF Healthy(s)
                       THEN settings.MAX_VIVA_QUESTIONS
                       ELSE Min(settings.MAX_VIVA_QUESTIONS,
                                Cardinality(ProviderTurns(s)))
                /\ Healthy(s) => s.questions_asked >= settings.MIN_VIVA_QUESTIONS

\* C7: with a configured maximum of 5, each of the first four successful
\* SubmitResponse calls after Start leaves the session in_progress, and after
\* the fifth it is completed with total_score the sum of the five Turn scores.
C7_FiveTurnsEndToEnd ==
    settings.MAX_VIVA_QUESTIONS = 5 =>
        \A sid \in Ids :
            LET s == sessions[sid]
            IN  /\ (RespondedOk(sid) /\ s.questions_answered \in 1..4)
                   => /\ s.status = IN_PROGRESS
                      /\ call.session_complete = Some(FALSE)
                /\ s.questions_answered = 5
                   => /\ s.status = COMPLETED
                      /\ Len(s.responses) = 5
                      /\ \A i \in 1..5 : s.responses[i].score # None
                      /\ s.total_score =
                             Some(Val(s.responses[1].score) + Val(s.responses[2].score)
                                  + Val(s.responses[3].score) + Val(s.responses[4].score)
                                  + Val(s.responses[5].score))

\* C7 witness: five answers given under a maximum of 5, the session completed,
\* the Turn scores not all equal.
C7_Witness ==
    /\ settings.MAX_VIVA_QUESTIONS = 5
    /\ \E sid \in Ids :
          /\ RespondedOk(sid)
          /\ sessions[sid].questions_answered = 5
          /\ sessions[sid].status = COMPLETED
          /\ sessions[sid].responses[1].score = Some(Fix(8))
          /\ sessions[sid].responses[2].score = Some(Fix(7))
          /\ sessions[sid].total_score # None

\* C8: the aggregation sets total_score to the sum of score and
\* max_possible_score to the sum of max_score over all Turns of the list it is
\* given, whatever else the session holds; Turns scored 7/10 and 8/10 give
\* 15 and 20.
C8_TotalsAreSums ==
    \A sid \in Ids :
        Aggregated(sid) =>
            LET s == sessions[sid]
                n == Len(s.responses)
            IN  /\ s.total_score = Some(TotalOf(s.responses, n))
                /\ s.max_possible_score = Some(MaxPossibleOf(s.responses, n))
                /\ call.total_score = s.total_score
                /\ call.max_possible_score = s.max_possible_score
                /\ (/\ n = 2
                    /\ s.responses[1].score = Some(Fix(7))
                    /\ s.responses[2].score = Some(Fix(8))
                    /\ s.responses[1].max_score = Some(Fix(10))
                    /\ s.responses[2].max_score = Some(Fix(10)))
                   => /\ s.total_score = Some(Fix(15))
                      /\ s.max_possible_score = Some(Fix(20))

\* C8 witness: the list of two Turns scored 7/10 and 8/10, aggregated.
C8_Witness ==
    \E sid \in Ids :
        /\ Aggregated(sid)
        /\ Len(sessions[sid].responses) = 2
        /\ sessions[sid].responses[1].score = Some(Fix(7))
        /\ sessions[sid].responses[2].score = Some(Fix(8))
        /\ sessions[sid].total_score = Some(Fix(15))
        /\ sessions[sid].max_possible_score = Some(Fix(20))

Scored(row) == row.max_score # None

\* C12: started_at is set once, at the first entry into in_progress, and
\* completed_at once, at the entry into completed; no later step overwrites
\* or clears either.
C12_TimestampsSetOnce ==
    [][\A sid \in Ids :
          /\ sessions[sid].started_at # None
             => sessions'[sid].started_at = sessions[sid].started_at
          /\ sessions[sid].completed_at # None
             => sessions'[sid].completed_at = sessions[sid].completed_at
          /\ sessions'[sid].status = IN_PROGRESS => sessions'[sid].started_at # None
          /\ sessions'[sid].status = COMPLETED => sessions'[sid].completed_at # None]_vars

\* C13: the order indices of a session's Turns are 1, 2, ..., n in issue
\* order: one Turn for each index, no gap, none twice.
C13_OrderIndicesDense ==
    \A sid \in Ids :
        \A i \in DOMAIN sessions[sid].responses :
            sessions[sid].responses[i].order_index = i

\* C14: a Turn that has received a response and been scored is never changed
\* by a later step: its response, its scores and its feedback stay.
C14_ScoredTurnImmutable ==
    [][\A sid \in Ids :
          \A i \in DOMAIN sessions[sid].responses :
              Scored(sessions[sid].responses[i])
              => sessions'[sid].responses[i] = sessions[sid].responses[i]]_vars

\* An evaluation that fails: the provider call raises, or the handler raises
\* on the payload (a null overall_score).
EvalFailed(ev) ==
    \/ ev.kind = "error"
    \/ /\ ev.kind = "dict"
       /\ "overall_score" \in DOMAIN ev.body
       /\ ev.body["overall_score"] = None

\* C16: a SubmitResponse whose evaluation fails still answers 200: the
\* answered Turn carries the default score 7 of 10 and the response,
\* questions_answered grows by one, and the session continues or completes
\* by questions_asked alone, as it does for every evaluation.
C16_EvaluationFailureDefaults ==
    [][\A sid \in Ids :
          (/\ call'.op = "respond" /\ call'.sid = sid
           /\ sessions[sid].status = IN_PROGRESS
           /\ PendingTurns(sessions[sid]) # {})
          => /\ call'.code = 200
             /\ sessions'[sid].questions_answered =
                    sessions[sid].questions_answered + 1
             /\ \A text \in ResponseTexts : \A ev \in EvalReplies :
                \A gen \in GenReplies :
                   Respond(sid, SubmissionStudent, {text}, {ev}, {gen}, {FALSE})
                   => /\ sessions'[sid].status =
                             IF sessions[sid].questions_asked < QuestionLimit
                             THEN IN_PROGRESS ELSE COMPLETED
                      /\ call'.session_complete =
                             Some(sessions[sid].questions_asked >= QuestionLimit)
                      /\ EvalFailed(ev)
                         => \E i \in PendingTurns(sessions[sid]) :
                               /\ sessions'[sid].responses[i].response_text = text
                               /\ sessions'[sid].responses[i].score = Some(Fix(7))
                               /\ sessions'[sid].responses[i].max_score = Some(Fix(10))]_vars

\* C16 witness: a response just accepted whose Turn carries the adapter's
\* fallback feedback and the default score.
C16_Witness ==
    \E sid \in Ids :
        /\ RespondedOk(sid)
        /\ sessions[sid].questions_answered = 1
        /\ \E i \in DOMAIN sessions[sid].responses :
              /\ sessions[sid].responses[i].ai_feedback = Some(FallbackFeedback)
              /\ sessions[sid].responses[i].response_text # None
              /\ sessions[sid].responses[i].score = Some(Fix(7))
              /\ sessions[sid].responses[i].max_score = Some(Fix(10))

\* C18: the result of a successful SubmitResponse says session_complete
\* exactly when the session is then completed; it then carries the persisted
\* total_score and max_possible_score, and otherwise the question text of the
\* session's new pending Turn.
C18_ResultMatchesSession ==
    \A sid \in Ids :
        RespondedOk(sid) =>
            LET s == sessions[sid]
                last == s.responses[Len(s.responses)]
            IN  /\ call.session_complete \in {Some(TRUE), Some(FALSE)}
                /\ call.session_complete = Some(TRUE) <=> s.status = COMPLETED
                /\ s.status = COMPLETED
                   => /\ call.total_score = s.total_score
                      /\ call.max_possible_score = s.max_possible_score
                      /\ s.total_score # None
                      /\ call.question = None
                /\ s.status # COMPLETED
                   => /\ last.response_text = None
                      /\ ~Scored(last)
                      /\ call.question = Some(last.question_text)

\* C18 witness: a response just accepted that got the next question, the text
\* of the session's new second Turn.
C18_Witness ==
    \E sid \in Ids :
        /\ RespondedOk(sid)
        /\ sessions[sid].status = IN_PROGRESS
        /\ call.session_complete = Some(FALSE)
        /\ Len(sessions[sid].responses) = 2
        /\ call.question = Some(sessions[sid].responses[2].question_text)

\* C19: a successful Start leaves the session in_progress with started_at set,
\* questions_asked = 1, questions_answered = 0 and exactly one Turn, pending,
\* of order index 1, whose question text is the question returned.
C19_StartPostcondition ==
    \A sid \in Ids :
        StartedOk(sid) =>
            LET s == sessions[sid]
            IN  /\ s.status = IN_PROGRESS
                /\ s.started_at # None
                /\ s.questions_asked = 1
                /\ s.questions_answered = 0
                /\ Len(s.responses) = 1
                /\ s.responses[1].order_index = 1
                /\ s.responses[1].response_text = None
                /\ call.question = Some(s.responses[1].question_text)

\* C20: a successful SubmitResponse continues when questions_asked was below
\* the configured maximum and the adapter produced a question: the session
\* stays in_progress, one pending Turn is appended, questions_asked grows by
\* one.  Otherwise the session is completed, with completed_at and the
\* aggregates set, questions_asked unchanged and no Turn appended.
C20_ContinuationDecision ==
    [][\A sid \in Ids : \A text \in ResponseTexts : \A ev \in EvalReplies :
       \A gen \in GenReplies :
          (/\ sessions[sid].status = IN_PROGRESS
           /\ PendingTurns(sessions[sid]) # {}
           /\ Respond(sid, SubmissionStudent, {text}, {ev}, {gen}, {FALSE}))
          => LET s == sessions[sid]
                 t == sessions'[sid]
             IN  IF s.questions_asked < settings.MAX_VIVA_QUESTIONS /\ gen.kind = "json"
                 THEN /\ t.status = IN_PROGRESS
                      /\ Len(t.responses) = Len(s.responses) + 1
                      /\ t.responses[Len(t.responses)].response_text = None
                      /\ t.questions_asked = s.questions_asked + 1
                 ELSE /\ t.status = COMPLETED
                      /\ t.completed_at # None
                      /\ t.total_score # None
                      /\ t.max_possible_score # None
                      /\ t.questions_asked = s.questions_asked
                      /\ Len(t.responses) = Len(s.responses)]_vars

\* Whether the lifecycle state lets the operation through.
StateAllows(op, s) ==
    IF op = "start" THEN s.status = SCHEDULED ELSE s.status = IN_PROGRESS
StateDetail(op) == IF op = "start" THEN StartStateDetail ELSE RespondStateDetail
OwnerDetail(op) == IF op = "start" THEN StartForbiddenDetail ELSE RespondForbiddenDetail

\* The step is the actor's Start (op "start") or SubmitResponse on sid.
Calls(op, sid, actor) ==
    IF op = "start"
    THEN Start(sid, actor, {ProviderQuestion}, {FALSE})
    ELSE Respond(sid, actor, {Some("answer")}, {ProviderEvaluation},
                 {ProviderQuestion}, {FALSE})

\* C15: Start and SubmitResponse fail in a fixed precedence: 404 for an
\* unknown session id, otherwise 403 when the actor is not the session's
\* respondent, otherwise 400 (invalid state) when the state does not allow
\* the operation; only the respondent's call ever changes a session.
C15_ErrorPrecedence ==
    [][\A op \in {"start", "respond"} : \A sid \in SessionIds : \A actor \in Users :
          Calls(op, sid, actor)
          => /\ IF sid \notin Ids
                THEN call'.code = 404
                ELSE IF sessions[sid].student_id # actor
                THEN call'.code = 403
                ELSE IF ~StateAllows(op, sessions[sid])
                THEN call'.code = 400 /\ call'.detail = StateDetail(op)
                ELSE call'.code \notin {403, 404}
             /\ sessions' # sessions
                => sid \in Ids /\ sessions[sid].student_id = actor]_vars

\* C15 as amended: an actor who is not a student gets 403 first, whatever the
\* session id; for a student the precedence is 404 for an unknown id, 403 when
\* the student is not the session's respondent, 400 for a state that does not
\* allow the operation; only the respondent's call ever changes a session.
C15_RoleThenPrecedence ==
    [][\A op \in {"start", "respond"} : \A sid \in SessionIds : \A actor \in Users :
          Calls(op, sid, actor)
          => /\ IF Role(actor) # "student"
                THEN call'.code = 403 /\ call'.detail = RoleDetail
                ELSE IF sid \notin Ids
                THEN call'.code = 404 /\ call'.detail = NotFoundDetail
                ELSE IF sessions[sid].student_id # actor
                THEN call'.code = 403 /\ call'.detail = OwnerDetail(op)
                ELSE IF ~StateAllows(op, sessions[sid])
                THEN call'.code = 400 /\ call'.detail = StateDetail(op)
                ELSE call'.code \notin {403, 404}
             /\ call'.code # 200 => sessions' = sessions
             /\ sessions' # sessions
                => sid \in Ids /\ sessions[sid].student_id = actor]_vars

\* C15 witness: another student's SubmitResponse on a session in progress,
\* just refused as not the respondent's.
C15_Witness ==
    \E sid \in Ids :
        /\ call.op = "respond" /\ call.sid = sid
        /\ call.code = 403 /\ call.detail = RespondForbiddenDetail
        /\ sessions[sid].status = IN_PROGRESS
        /\ sessions[sid].questions_answered = 1

\* C17: Get answers 200 only to the session's respondent and to the teacher
\* who owns the assignment of its submission; every other authenticated user
\* gets 403.
C17_GetOnlyRespondentOrExaminer ==
    [][\A sid \in Ids : \A actor \in Users :
          GetSession(sid, actor)
          => IF actor = sessions[sid].student_id \/ actor = AssignmentTeacher
             THEN call'.code = 200
             ELSE call'.code = 403]_vars

\* C11: whatever the interleaving of SubmitResponse calls on a session, a
\* call that records its evaluation records it on a Turn that has no score
\* yet: no Turn is answered and scored by two calls.
C11_OneScorePerTurn ==
    [][\A p \in Requests :
          (inflight[p].pc = "evaluating" /\ inflight'[p].pc # "evaluating")
          => ~Scored(sessions[inflight[p].sid].responses[inflight[p].row])]_vars

\* The Turns of a session that carry a recorded score.
ScoredTurns(s) == {i \in DOMAIN s.responses : Scored(s.responses[i])}

\* C25: a SubmitResponse on an in_progress session that has more than one
\* pending Turn is refused (no 200) and changes nothing, instead of answering
\* one of the pending Turns.
C25_SeveralPendingRefused ==
    [][\A sid \in Ids :
          (/\ call'.op = "respond" /\ call'.sid = sid
           /\ sessions[sid].status = IN_PROGRESS
           /\ Cardinality(PendingTurns(sessions[sid])) > 1)
          => /\ call'.code # 200
             /\ call'.detail \notin {NoPendingDetail, RespondStateDetail}
             /\ sessions'[sid] = sessions[sid]]_vars

\* C26: a Start or SubmitResponse answered 404, 403 or 400 (not found,
\* forbidden, invalid state, no pending Turn) leaves every session and all
\* its Turns as they were.
C26_FailedCallChangesNothing ==
    [][(call'.op \in {"start", "respond"} /\ call'.code \in {400, 403, 404})
       => sessions' = sessions]_vars

\* C26 witness: a SubmitResponse just refused on a completed session that
\* holds its five scored Turns and its aggregates.
C26_Witness ==
    \E sid \in Ids :
        /\ call.op = "respond" /\ call.sid = sid
        /\ call.code = 400 /\ call.detail = RespondStateDetail
        /\ sessions[sid].status = COMPLETED
        /\ Cardinality(ScoredTurns(sessions[sid])) = 5
        /\ sessions[sid].total_score # None

\* C29: no call of a user other than the session's respondent changes the
\* session: its state, timestamps, counters and Turns stay.
C29_OnlyRespondentChanges ==
    [][\A sid \in Ids : \A actor \in Users \ {sessions[sid].student_id} :
          /\ \A status \in VivaSessionStatus :
                Update(sid, actor, status) => sessions'[sid] = sessions[sid]
          /\ \A op \in {"start", "respond"} :
                Calls(op, sid, actor) => sessions'[sid] = sessions[sid]
          /\ GetSession(sid, actor) => sessions'[sid] = sessions[sid]]_vars

\* C30: the counters agree with the ledger: a session has questions_asked
\* Turns, and questions_answered of them carry a recorded score.
C30_CountersMatchLedger ==
    \A sid \in Ids :
        /\ Len(sessions[sid].responses) = sessions[sid].questions_asked
        /\ Cardinality(ScoredTurns(sessions[sid])) = sessions[sid].questions_answered

\* C21: SubmitResponse is all or nothing: once no request is in flight, a
\* session is never persisted as in_progress with its last Turn answered and
\* no pending Turn.
C21_RespondAtomic ==
    \A sid \in Ids :
        LET s == sessions[sid]
        IN  (/\ \A p \in Requests : inflight[p].pc = "idle"
             /\ s.status = IN_PROGRESS
             /\ s.responses # <<>>)
            => \/ ~Scored(s.responses[Len(s.responses)])
               \/ PendingTurns(s) # {}

\* C23: under every interleaving of overlapping Start and SubmitResponse
\* calls a session never has two pending Turns, never two Turns with one
\* order index, and never more than one Turn issued beyond the answered ones.
C23_InterleavingsKeepLedger ==
    \A sid \in Ids :
        LET s == sessions[sid]
        IN  /\ Cardinality(PendingTurns(s)) <= 1
            /\ \A i, j \in DOMAIN s.responses :
                   s.responses[i].order_index = s.responses[j].order_index => i = j
            /\ Len(s.responses) <= Cardinality(ScoredTurns(s)) + 1

\* C22: a started session whose respondent keeps submitting is completed,
\* with its aggregate scores set, after at most the configured maximum of
\* SubmitResponse calls, whatever the provider replies: a session that has
\* counted that many answers is no longer in_progress.
C22_CompletesWithinConfiguredMax ==
    \A sid \in Ids :
        LET s == sessions[sid]
        IN  /\ s.status = IN_PROGRESS
               => s.questions_answered < settings.MAX_VIVA_QUESTIONS
            /\ s.status = COMPLETED
               => /\ s.total_score # None
                  /\ s.overall_confidence_score # None
                  /\ s.technical_accuracy_score # None

\* The shape the adapter is to require of a payload: a question text that is
\* present, and the four scores present and within [0,1] (0..10 tenths).
WellShapedQuestion(r) ==
    r.kind = "json" /\ r.question \notin {None, Some("")}
WellShapedEvaluation(r) ==
    /\ r.kind = "dict"
    /\ \A k \in {"accuracy_score", "completeness_score", "confidence_score",
                 "overall_score"} :
           /\ Get(r.body, k) # None
           /\ Val(Get(r.body, k)) \in 0..10

\* C24: a payload that is not of the expected shape is treated like a
\* transport failure: the Turn gets the fallback evaluation (0.7 on every
\* score, 7 of 10, the fallback feedback), the next Turn the fallback question.
C24_MalformedPayloadFallsBack ==
    [][\A sid \in Ids : \A ev \in PayloadEvaluations, gen \in PayloadQuestions :
          /\ (Respond(sid, SubmissionStudent, {Some("answer")}, {ev}, {gen}, {FALSE})
              /\ call'.code = 200)
             => /\ ~WellShapedEvaluation(ev)
                   => \A i \in CurrentRows(sessions[sid]) :
                          sessions'[sid].responses[i] =
                              WithEvaluation(
                                  [sessions[sid].responses[i]
                                      EXCEPT !.response_text = Some("answer")],
                                  [kind |-> "dict", body |-> FallbackEvaluation])
                /\ (~WellShapedQuestion(gen) /\ call'.question # None)
                   => call'.question = Some(FallbackQuestion)
          /\ (Start(sid, SubmissionStudent, {gen}, {FALSE}) /\ call'.code = 200
              /\ ~WellShapedQuestion(gen))
             => call'.question = Some(FallbackQuestion)]_vars

\* A Turn's confidence and accuracy as the means count them: the recorded
\* score, and 0 for a Turn that holds none.
TurnConfidence(row) ==
    IF row.confidence_score = None THEN 0 ELSE Val(row.confidence_score)
TurnAccuracy(row) ==
    IF row.accuracy_score = None THEN 0 ELSE Val(row.accuracy_score)

RECURSIVE ConfidenceOf(_, _)
ConfidenceOf(rows, n) ==
    IF n = 0 THEN 0 ELSE TurnConfidence(rows[n]) + ConfidenceOf(rows, n - 1)

RECURSIVE AccuracyOf(_, _)
AccuracyOf(rows, n) ==
    IF n = 0 THEN 0 ELSE TurnAccuracy(rows[n]) + AccuracyOf(rows, n - 1)

\* The Turns that got the handler's default score 7 of 10 with no evaluation
\* written on them.
DefaultScored(s) ==
    {i \in DOMAIN s.responses :
        /\ s.responses[i].score = Some(Fix(7))
        /\ s.responses[i].confidence_score = None}

C28_OtherSessionsUntouched ==
    [][\A sid \in Ids : call'.sid # sid => sessions'[sid] = sessions[sid]]_vars

\* C28 witness: a call on session 2 has just completed it while session 1 is
\* in progress with two answered Turns and a pending one.
C28_Witness ==
    /\ Ids = PairIds
    /\ call.op = "respond" /\ call.sid = 2 /\ call.code = 200
    /\ sessions[2].status = COMPLETED
    /\ sessions[2].total_score # None
    /\ sessions[1].status = IN_PROGRESS
    /\ sessions[1].questions_answered = 2
    /\ Len(sessions[1].responses) = 3

\* C31: no session issues more than 5 questions: questions_asked is at most
\* 5, the session has at most 5 Turn records, and the SubmitResponse that
\* answers the Turn with order index 5 leaves the session completed.
C31_AtMostFiveQuestions ==
    \A sid \in Ids :
        LET s == sessions[sid]
        IN  /\ s.questions_asked <= 5
            /\ Len(s.responses) <= 5
            /\ (/\ RespondedOk(sid)
                /\ \E i \in ScoredTurns(s) :
                       /\ s.responses[i].order_index = 5
                       /\ \A j \in DOMAIN s.responses : j > i => ~Scored(s.responses[j]))
               => s.status = COMPLETED

\* C32: recorded scores stay within their scale whatever the provider
\* returns: a scored Turn has max_score 10 and a score from 0 to max_score, a
\* completed session a total_score from 0 to max_possible_score.
C32_ScoresWithinScale ==
    \A sid \in Ids :
        LET s == sessions[sid]
        IN  /\ \A i \in ScoredTurns(s) :
                   /\ s.responses[i].max_score = Some(Fix(10))
                   /\ s.responses[i].score # None
                   /\ 0 <= Val(s.responses[i].score)
                   /\ Val(s.responses[i].score) <= Val(s.responses[i].max_score)
            /\ (s.status = COMPLETED /\ s.total_score # None)
               => /\ 0 <= Val(s.total_score)
                  /\ Val(s.total_score) <= Val(s.max_possible_score)

\* C33: when process_media_file has returned for an audio or video file, the
\* file's processing_status is completed or failed, never pending or
\* processing, and it is completed only if every step for the media type
\* succeeded: the transcription, and for a video the compression too.
C33_ProcessingEndsTerminal ==
    \A id \in DOMAIN media :
        media[id].task = "returned"
        => /\ media[id].processing_status \in {"completed", "failed"}
           /\ media[id].processing_status = "completed"
              => /\ media[id].transcription = "ok"
                 /\ media[id].media_type = VIDEO => media[id].compression = "ok"

\* The submissions a student has made for the assignment.
SubmissionsOf(student) ==
    {i \in DOMAIN submissions : submissions[i].student_id = student}

\* C34: under every interleaving of create_submission calls, a student's
\* submissions for the assignment never number more than its max_attempts,
\* and their attempt numbers are distinct and run from 1 without a gap.
C34_AttemptsBoundedAndDistinct ==
    \A student \in Students :
        /\ Cardinality(SubmissionsOf(student)) <= assignment.max_attempts
        /\ \A i, j \in SubmissionsOf(student) :
               submissions[i].attempt_number = submissions[j].attempt_number => i = j
        /\ {submissions[i].attempt_number : i \in SubmissionsOf(student)}
               = 1..Cardinality(SubmissionsOf(student))

\* C35: a student's call changes a submission only while it is draft, and the
\* only move of its status a student's calls make is from draft to
\* submitted; once it has left draft, student calls leave it unchanged.
C35_StudentOnlyDraftToSubmitted ==
    [][\A id \in DOMAIN submissions :
          /\ submissions'[id] # submissions[id]
             => submissions[id].status = DRAFT
          /\ submissions'[id].status # submissions[id].status
             => /\ submissions[id].status = DRAFT
                /\ submissions'[id].status = SUBMITTED]_vars

====
